---------------------------- MODULE Spec2Model ----------------------------
(***************************************************************************)
(* A model of webwalk.py: the URL canonicalizer (clean_url), the link      *)
(* extractor (MyHtmlParser), the traversal policy (proceed, display,       *)
(* is_html), the crawl engine (walk, report, copy_to_file) and the checks  *)
(* of the command line (getopts, regex_compile).                           *)
(*                                                                         *)
(* Python strings are sequences of one-character strings, so that find,    *)
(* startswith, split and slicing are computed character by character.      *)
(* Python's None for a string-valued name is the one-element sequence      *)
(* <<"None">>, which no character sequence equals.                         *)
(***************************************************************************)
EXTENDS Integers, Sequences, FiniteSets, TLC

VARIABLES
    opts,    \* the argparse namespace of the run (main: opts = getopts())
    site,    \* the web site: canonical URL -> what urlopen answers for it
    run,     \* the state of main/walk: call stack, dups, output, files
    twin,    \* a second run over the same site: beside the first with
             \* the display filter changed, or after it on its files
    twinOpts,\* the options of the second run when they differ
    parser,  \* a MyHtmlParser instance fed tag by tag
    cu       \* clean_url applied to one input string

vars == <<opts, site, run, twin, twinOpts, parser, cu>>

None == <<"None">>

\* a variable the specification at hand does not use
Idle == [pc |-> "idle"]

(***************************************************************************)
(* Python string operations                                                *)
(***************************************************************************)
Min(S) == CHOOSE x \in S : \A y \in S : x <= y

\* s.startswith(p)
startswith(s, p) == Len(p) <= Len(s) /\ SubSeq(s, 1, Len(p)) = p

\* s.endswith(p)
endswith(s, p) ==
    Len(p) <= Len(s) /\ SubSeq(s, Len(s) - Len(p) + 1, Len(s)) = p

\* s.find(sub, start): the 0-based index of the first occurrence of sub at
\* or after start, -1 when there is none
find(s, sub, start) ==
    LET hits == { i \in start..(Len(s) - Len(sub)) :
                    SubSeq(s, i + 1, i + Len(sub)) = sub }
    IN  IF hits = {} THEN -1 ELSE Min(hits)

\* s[i:] and s[:i] for 0 <= i
slice_from(s, i) == SubSeq(s, i + 1, Len(s))
slice_to(s, i) == SubSeq(s, 1, IF i > Len(s) THEN Len(s) ELSE i)

\* s.rfind('?')
rfind_query(s) ==
    LET hits == { i \in 0..(Len(s) - 1) : s[i + 1] = "?" }
    IN  IF hits = {} THEN -1 ELSE CHOOSE i \in hits : \A j \in hits : j <= i

\* s.rsplit('?', 1)[0]: the split at the last '?' instead of the first
rsplit_query(s) ==
    LET pos == rfind_query(s)
    IN  IF pos < 0 THEN s ELSE slice_to(s, pos)

\* s.split('?', 1)[0]
split_query(s) ==
    LET pos == find(s, <<"?">>, 0)
    IN  IF pos < 0 THEN s ELSE slice_to(s, pos)

\* s.split('/')
RECURSIVE split_slash(_)
split_slash(s) ==
    LET pos == find(s, <<"/">>, 0)
    IN  IF pos < 0 THEN <<s>>
        ELSE <<slice_to(s, pos)>> \o split_slash(slice_from(s, pos + 1))

\* '/'.join(comps)
RECURSIVE join_slash(_)
join_slash(comps) ==
    IF comps = <<>> THEN <<>>
    ELSE IF Len(comps) = 1 THEN comps[1]
    ELSE comps[1] \o <<"/">> \o join_slash(Tail(comps))

(***************************************************************************)
(* os.path.abspath on a POSIX host.  Every path clean_url passes starts    *)
(* with '/', so abspath is normpath: empty and '.' components are dropped, *)
(* '..' pops the preceding component and is dropped at the root, and       *)
(* exactly two leading slashes are kept as two (POSIX), any other number   *)
(* of leading slashes as one.                                              *)
(***************************************************************************)
RECURSIVE norm_comps(_, _)
norm_comps(comps, acc) ==
    IF comps = <<>> THEN acc
    ELSE LET comp == Head(comps)
         IN  IF comp = <<>> \/ comp = <<".">>
                 THEN norm_comps(Tail(comps), acc)
             ELSE IF comp # <<".", ".">>
                 THEN norm_comps(Tail(comps), Append(acc, comp))
             ELSE IF acc # <<>>
                 THEN norm_comps(Tail(comps), SubSeq(acc, 1, Len(acc) - 1))
             ELSE norm_comps(Tail(comps), acc)

abspath(path) ==
    LET initial == IF startswith(path, <<"/", "/">>)
                      /\ ~startswith(path, <<"/", "/", "/">>)
                   THEN <<"/", "/">> ELSE <<"/">>
    IN  initial \o join_slash(norm_comps(split_slash(path), <<>>))

(***************************************************************************)
(* clean_url                                                               *)
(***************************************************************************)
clean_url(url) ==
    LET path == split_query(url)
        pos == find(path, <<":", "/", "/">>, 0)
    IN  IF pos >= 0
            THEN slice_to(path, pos + 2) \o abspath(slice_from(path, pos + 2))
        ELSE IF startswith(path, <<"/">>)
            THEN abspath(path)
        ELSE slice_from(abspath(<<"/">> \o path), 1)

(***************************************************************************)
(* MyHtmlParser.  HTMLParser.feed calls handle_starttag once per start tag *)
(* in document order; the document is the sequence of its start tags, each *)
(* [tag |-> name, attrs |-> <<<<name, value>>, ...>>].  An instance is     *)
(* [m_url, m_list, m_base]; `seen` logs what __create_url returned for     *)
(* each a/link/script reference, in document order.                        *)
(***************************************************************************)
\* str.lower() on the tag and attribute names that occur
lower(name) ==
    CASE name = "A" -> "a"
      [] name = "BASE" -> "base"
      [] name = "LINK" -> "link"
      [] name = "SCRIPT" -> "script"
      [] name = "HREF" -> "href"
      [] name = "SRC" -> "src"
      [] OTHER -> name

RECURSIVE get_attr(_, _)
get_attr(attrs, key) ==
    IF attrs = <<>> THEN None
    ELSE IF lower(Head(attrs)[1]) = key THEN Head(attrs)[2]
    ELSE get_attr(Tail(attrs), key)

path_join(parta, partb) ==
    IF endswith(parta, <<"/">>)
        THEN IF startswith(partb, <<"/">>)
                 THEN parta \o slice_from(partb, 1)
                 ELSE parta \o partb
    ELSE IF startswith(partb, <<"/">>)
        THEN parta \o partb
    ELSE parta \o <<"/">> \o partb

create_url(p, in_path) ==
    LET path == clean_url(split_query(in_path))
    IN  IF path = <<"/">> THEN None
        ELSE IF startswith(path, <<"/">>)
            THEN IF p.m_base # None
                     THEN path_join(p.m_base, path)
                 ELSE LET scheme == find(p.m_url, <<":", "/", "/">>, 0)
                          pos == IF scheme >= 0
                                     THEN find(p.m_url, <<"/">>, scheme + 3)
                                     ELSE find(p.m_url, <<"/">>, 0)
                      IN  IF pos < 0 THEN None
                          ELSE path_join(slice_to(p.m_url, pos), path)
        ELSE IF find(path, <<":", "/", "/">>, 0) < 0
            THEN path_join(p.m_url, path)
        ELSE path

InList(list, x) == \E i \in 1..Len(list) : list[i] = x

\* the same, inserting at the front of the list
add_path_prepend(p, path) ==
    LET q == [p EXCEPT !.seen = Append(@, path)]
    IN  IF path # None /\ path # p.m_url /\ ~InList(p.m_list, path)
            THEN [q EXCEPT !.m_list = <<path>> \o @]
            ELSE q

\* the shared tail of the a/link and the script branch
add_path(p, path) ==
    LET q == [p EXCEPT !.seen = Append(@, path)]
    IN  IF path # None /\ path # p.m_url /\ ~InList(p.m_list, path)
            THEN [q EXCEPT !.m_list = Append(@, path)]
            ELSE q

handle_starttag(p, t) ==
    LET tag == lower(t.tag)
    IN  IF tag = "base"
            THEN LET href == get_attr(t.attrs, "href")
                 IN  IF href # None
                         THEN [p EXCEPT !.m_base = clean_url(href)]
                         ELSE p
        ELSE IF tag \in {"a", "link"}
            THEN LET href == get_attr(t.attrs, "href")
                 IN  IF href = None THEN p
                     ELSE IF startswith(href, <<"#">>)
                             \/ startswith(href, <<"?">>) THEN p
                     ELSE add_path(p, create_url(p, href))
        ELSE IF tag = "script"
            THEN LET src == get_attr(t.attrs, "src")
                 IN  IF src = None THEN p
                     ELSE add_path(p, create_url(p, src))
        ELSE p

setup(url) ==
    [m_list |-> <<>>, m_url |-> clean_url(url), m_base |-> None, seen |-> <<>>]

RECURSIVE feed(_, _)
feed(p, html) ==
    IF html = <<>> THEN p
    ELSE feed(handle_starttag(p, Head(html)), Tail(html))

analyze(url, html) == feed(setup(url), html)

(***************************************************************************)
(* Traversal policy.  A compiled pattern is [lit, anchored]: the regex     *)
(* that is the literal lit, followed by '$' when anchored.  opts.exclude,  *)
(* opts.include and opts.filter are None or a non-empty list (argparse     *)
(* action='append'); None is the empty sequence here.                      *)
(***************************************************************************)
\* pattern.search(url) is not None
search(pattern, url) ==
    IF pattern.anchored THEN endswith(url, pattern.lit)
    ELSE find(url, pattern.lit, 0) >= 0

proceed_nodepth(url, o, dups, depth) ==
    /\ url \notin dups
    /\ \A i \in 1..Len(o.exclude) : ~search(o.exclude[i], url)
    /\ \A i \in 1..Len(o.include) : search(o.include[i], url)

proceed(url, o, dups, depth) ==
    /\ ~(o.depth > 0 /\ depth > o.depth)
    /\ url \notin dups
    /\ \A i \in 1..Len(o.exclude) : ~search(o.exclude[i], url)
    /\ \A i \in 1..Len(o.include) : search(o.include[i], url)

display_all(url, o) ==
    IF o.filter # <<>>
        THEN LET urlx == IF endswith(url, <<"/">>)
                             THEN url \o <<"i","n","d","e","x",".","h","t","m","l">>
                             ELSE url
             IN  \A i \in 1..Len(o.filter) : search(o.filter[i], urlx)
        ELSE TRUE

display(url, o) ==
    IF o.filter # <<>>
        THEN LET urlx == IF endswith(url, <<"/">>)
                             THEN url \o <<"i","n","d","e","x",".","h","t","m","l">>
                             ELSE url
             IN  \E i \in 1..Len(o.filter) : search(o.filter[i], urlx)
        ELSE TRUE

\* info is [ctype, clen]: the Content-Type header ("absent" when the
\* response has none) and the Content-Length header (-1 when it has none)
is_html(info) == info.ctype \in {"text/html", "TEXT/HTML"}

(***************************************************************************)
(* The fetcher.  site maps a canonical URL to [status, info, body]; a URL  *)
(* outside its domain answers 404 (HTTPError).  A response is a stream:    *)
(* response.read() returns the whole body the first time and the empty     *)
(* string afterwards.  A frame of walk keeps `consumed` for that.          *)
(***************************************************************************)
urlopen(url) ==
    IF url \in DOMAIN site THEN site[url]
    ELSE [status |-> "HTTPError",
          info |-> [ctype |-> "absent", clen |-> -1], body |-> <<>>]

\* openurl: the response, or None ([ok |-> FALSE]) after writing a warning
openurl(url, o) ==
    LET resp == urlopen(url)
    IN  IF resp.status = "ok"
            THEN [ok |-> TRUE, info |-> resp.info, body |-> resp.body,
                  warning |-> <<>>]
            ELSE [ok |-> FALSE, info |-> resp.info, body |-> <<>>,
                  warning |-> IF o.no_warnings THEN <<>>
                              ELSE <<[warning |-> resp.status, url |-> url]>>]

\* read_url_data(response) on frame f: the data and the frame afterwards;
\* reads counts the calls of response.read()
read_url_data(f) ==
    [data |-> IF f.consumed THEN <<>> ELSE f.body,
     frame |-> [f EXCEPT !.consumed = TRUE, !.reads = @ + 1]]

(***************************************************************************)
(* report: the line written to stdout and the data it returns (has_data    *)
(* FALSE is Python's None).  The line holds the columns the options ask    *)
(* for; the indentation and the --relurl rendering of the URL column are   *)
(* not modelled (opts.indent and opts.relurl are False, their defaults).   *)
(***************************************************************************)
report(f, o, reppath, cppath) ==
    LET sized == o.verbose > 0
        reads == sized /\ f.info.clen < 0
        r1 == IF reads THEN read_url_data(f)
              ELSE [data |-> <<>>, frame |-> f]
        clen == IF ~sized THEN -1
                ELSE IF f.info.clen >= 0 THEN f.info.clen
                ELSE Len(r1.data)
        ctype == IF o.verbose > 1 THEN f.info.ctype ELSE "-"
        r3 == IF o.verbose >= 3 THEN read_url_data(r1.frame)
              ELSE [data |-> r1.data, frame |-> r1.frame]
        line == [url |-> f.url, clen |-> clen, ctype |-> ctype,
                 reppath |-> reppath, cppath |-> cppath,
                 header |-> o.verbose >= 3]
    IN  [line |-> line,
         frame |-> [r3.frame EXCEPT !.has_data = reads \/ o.verbose >= 3,
                                    !.data = r3.data]]

(***************************************************************************)
(* The mirror writer.  fs maps a path to [kind |-> "dir"] or               *)
(* [kind |-> "file", data |-> ...].                                        *)
(***************************************************************************)
IndexHtml == <<"i", "n", "d", "e", "x", ".", "h", "t", "m", "l">>

create_reppath(url, o) ==
    IF o.replicate # None
        THEN LET pos == Len(o.URL)
                 urlx == IF endswith(url, <<"/">>) THEN url \o IndexHtml
                         ELSE url
                 rel == slice_from(urlx, pos)
                 reppath == IF startswith(rel, <<"/">>) THEN rel
                            ELSE <<"/">> \o rel
             IN  clean_url(o.replicate \o reppath)
        ELSE None

\* s.rfind('/')
rfind_slash(s) ==
    LET hits == { i \in 0..(Len(s) - 1) : s[i + 1] = "/" }
    IN  IF hits = {} THEN -1 ELSE CHOOSE i \in hits : \A j \in hits : j <= i

\* os.path.join(a, b)
os_path_join(a, b) ==
    IF startswith(b, <<"/">>) THEN b
    ELSE IF a = <<>> \/ endswith(a, <<"/">>) THEN a \o b
    ELSE a \o <<"/">> \o b

create_cppath(url, o) ==
    IF o.copy # None
        THEN LET urlx == IF endswith(url, <<"/">>) THEN url \o IndexHtml
                         ELSE url
                 pos == rfind_slash(urlx)
             IN  os_path_join(o.copy, slice_from(urlx, pos + 1))
        ELSE None

\* s.rstrip('/')
RECURSIVE rstrip_slash(_)
rstrip_slash(s) ==
    IF s # <<>> /\ s[Len(s)] = "/" THEN rstrip_slash(SubSeq(s, 1, Len(s) - 1))
    ELSE s

\* os.path.dirname(p)
dirname(p) ==
    LET head == slice_to(p, rfind_slash(p) + 1)
    IN  IF head # <<>> /\ rstrip_slash(head) # <<>> THEN rstrip_slash(head)
        ELSE head

\* os.path.exists(p)
exists(fs, p) == p \in DOMAIN fs

\* the directories os.makedirs(d) walks through, outermost first
RECURSIVE ancestors(_)
ancestors(d) ==
    IF d = <<>> \/ rstrip_slash(d) = <<>> THEN <<>>
    ELSE LET up == dirname(d)
         IN  IF up = d THEN <<d>> ELSE Append(ancestors(up), d)

\* os.makedirs(d): [ok, fs]; it raises when d is empty or a component on
\* the way is a file
makedirs(fs, d) ==
    LET chain == ancestors(d)
        blocked == \E i \in 1..Len(chain) :
                      chain[i] \in DOMAIN fs /\ fs[chain[i]].kind = "file"
        made == { chain[i] : i \in 1..Len(chain) } \ DOMAIN fs
    IN  IF d = <<>> \/ blocked THEN [ok |-> FALSE, fs |-> fs]
        ELSE [ok |-> TRUE,
              fs |-> [q \in DOMAIN fs \cup made |->
                        IF q \in DOMAIN fs THEN fs[q] ELSE [kind |-> "dir"]]]

\* the same with no test of os.path.exists(outfile): the file is written anew
copy_to_file_overwrite(f, fs, outfile) ==
    LET rd == IF f.has_data THEN [data |-> f.data, frame |-> f]
              ELSE read_url_data(f)
        g == [rd.frame EXCEPT !.has_data = TRUE, !.data = rd.data]
        dirpath == dirname(outfile)
        md == IF exists(fs, dirpath) THEN [ok |-> TRUE, fs |-> fs]
              ELSE makedirs(fs, dirpath)
        can_open == /\ md.ok /\ md.fs[dirpath].kind = "dir"
                    /\ (exists(md.fs, outfile) => md.fs[outfile].kind = "file")
    IN  IF ~can_open THEN [ok |-> FALSE, fs |-> md.fs, frame |-> g]
        ELSE [ok |-> TRUE,
              fs |-> [q \in DOMAIN md.fs \cup {outfile} |->
                        IF q = outfile
                            THEN [kind |-> "file", data |-> rd.data]
                            ELSE md.fs[q]],
              frame |-> g]

\* copy_to_file on frame f: [ok, fs, frame]; ok is FALSE when makedirs or
\* open raise (OSError)
copy_to_file(f, fs, outfile) ==
    LET rd == IF f.has_data THEN [data |-> f.data, frame |-> f]
              ELSE read_url_data(f)
        g == [rd.frame EXCEPT !.has_data = TRUE, !.data = rd.data]
        dirpath == dirname(outfile)
        md == IF exists(fs, dirpath) THEN [ok |-> TRUE, fs |-> fs]
              ELSE makedirs(fs, dirpath)
        can_open == md.ok /\ md.fs[dirpath].kind = "dir"
    IN  IF exists(fs, outfile) THEN [ok |-> TRUE, fs |-> fs, frame |-> g]
        ELSE IF ~can_open THEN [ok |-> FALSE, fs |-> md.fs, frame |-> g]
        ELSE [ok |-> TRUE,
              fs |-> [q \in DOMAIN md.fs \cup {outfile} |->
                        IF q = outfile
                            THEN [kind |-> "file", data |-> rd.data]
                            ELSE md.fs[q]],
              frame |-> g]

(***************************************************************************)
(* main and walk.  A run is [pc, error, stack, dups, fs, stdout, stderr,   *)
(* fetched, calls].  stack is Python's call stack of walk frames, the top  *)
(* last; a frame's pc names the statement it is at.  fetched lists the     *)
(* URLs openurl was called with, in order.  calls keeps, for every call of *)
(* walk in call order, what that call did: its arguments, the call it was  *)
(* made from (from, child: the caller and the position in its link list),  *)
(* the statement it is at, the outcome of openurl (fetch), whether it was  *)
(* reported (shown) and handed to copy_to_file (copied), how often the     *)
(* body of its response was read (reads), and the page text and the links  *)
(* the parser was given and returned (parsed, html, children).             *)
(***************************************************************************)
\* the deepest nesting of walk the interpreter allows before it raises
\* RecursionError (sys.getrecursionlimit(), scaled down)
MaxStack == 5

NoInfo == [ctype |-> "absent", clen |-> -1]

Top(r) == r.stack[Len(r.stack)]

SetTop(r, f) ==
    [r EXCEPT !.stack[Len(r.stack)] = f, !.calls[f.id].at = f.pc,
              !.calls[f.id].reads = f.reads]

\* an uncaught exception: the stack unwinds through main and the process
\* dies with a traceback
raise(r, exc) == [r EXCEPT !.pc = "crash", !.error = exc, !.stack = <<>>]

\* return from the top frame of walk
return(r) ==
    LET rest == SubSeq(r.stack, 1, Len(r.stack) - 1)
    IN  [r EXCEPT !.stack = rest,
                  !.pc = IF rest = <<>> THEN "done" ELSE "walk",
                  !.calls[Top(r).id].at = "returned"]

\* walk(url, opts, dups, depth, recurse, parent) is entered
call_walk(r, url, depth, recurse, parent, from, child) ==
    IF Len(r.stack) >= MaxStack THEN raise(r, "RecursionError")
    ELSE LET id == Len(r.calls) + 1
             f == [arg |-> url, url |-> url, depth |-> depth,
                   recurse |-> recurse, parent |-> parent, pc |-> "proceed",
                   id |-> id, info |-> NoInfo, body |-> <<>>,
                   consumed |-> FALSE, reads |-> 0, has_data |-> FALSE,
                   data |-> <<>>, list |-> <<>>, idx |-> 0]
             c == [arg |-> url, url |-> url, depth |-> depth,
                   recurse |-> recurse, parent |-> parent, from |-> from,
                   child |-> child, at |-> "proceed", fetch |-> "none",
                   shown |-> FALSE, reads |-> 0,
                   copied |-> FALSE, parsed |-> FALSE, html |-> <<>>,
                   children |-> <<>>]
         IN  [r EXCEPT !.pc = "walk", !.stack = Append(@, f),
                       !.calls = Append(@, c)]

\* re.compile(pattern) raises re.error: of the patterns of the model, the
\* ones with an unbalanced parenthesis
re_error(pattern) ==
    Cardinality({ i \in 1..Len(pattern.lit) : pattern.lit[i] = "(" })
        # Cardinality({ i \in 1..Len(pattern.lit) : pattern.lit[i] = ")" })

\* regex_compile returns (TRUE) or raises re.error (FALSE)
regex_compile(o) ==
    /\ \A i \in 1..Len(o.exclude) : ~re_error(o.exclude[i])
    /\ \A i \in 1..Len(o.include) : ~re_error(o.include[i])
    /\ \A i \in 1..Len(o.filter) : ~re_error(o.filter[i])

\* main after getopts: dups = {}; regex_compile(opts); walk(opts.URL, opts,
\* dups).  Only KeyboardInterrupt is caught, re.error is not.
main(r, o) ==
    IF ~regex_compile(o) THEN raise(r, "re.error")
    ELSE call_walk(r, o.URL, 0, TRUE, None, 0, 0)

\* err(msg) of getopts: the message on stderr and sys.exit(1)
err(r, msg) ==
    [r EXCEPT !.pc = "exit", !.error = "SystemExit(1)",
              !.stderr = Append(@, [error |-> msg])]

\* the same with none of the checks
getopts_unchecked(r, o) == [r EXCEPT !.pc = "main"]

\* getopts, lines 713-757, on the parsed command line o.  An option that was
\* not given is None; the password read from the file or prompted for goes
\* to opts.authenticate, which the fetcher of the model does not look at.
getopts(r, o) ==
    LET password == IF o.password_file # None /\ exists(r.fs, o.password_file)
                        THEN r.fs[o.password_file].data
                    ELSE IF o.password # None THEN o.password
                    ELSE None
    IN  IF o.password # None /\ o.password_file # None
            THEN err(r, "password and password-file are mutually exclusive")
        ELSE IF o.password_file # None /\ ~exists(r.fs, o.password_file)
            THEN err(r, "password file does not exist")
        ELSE IF password # None /\ password # <<>> /\ o.username = None
            THEN err(r, "username must be specified")
        ELSE IF o.replicate # None /\ o.copy # None
            THEN err(r, "concurrent copy and replication")
        ELSE IF o.replicate # None /\ ~exists(r.fs, o.replicate)
            THEN err(r, "replication directory does not exist")
        ELSE IF o.copy # None /\ ~exists(r.fs, o.copy)
            THEN err(r, "copy directory does not exist")
        ELSE [r EXCEPT !.pc = "main"]

\* walk, lines 429-434: url = clean_url(url); proceed or return
walk_proceed(r, o) ==
    LET f == Top(r)
        url == clean_url(f.arg)
        r1 == [r EXCEPT !.calls[f.id].url = url]
    IN  IF ~proceed(url, o, r.dups, f.depth) THEN return(r1)
        ELSE SetTop(r1, [f EXCEPT !.url = url, !.pc = "openurl"])

\* the same with no except clause around urlopen: the error propagates
walk_openurl_fatal(r, o) ==
    LET f == Top(r)
        resp == openurl(f.url, o)
        r1 == [r EXCEPT !.fetched = Append(@, f.url),
                        !.stderr = @ \o resp.warning,
                        !.calls[f.id].fetch = IF resp.ok THEN "ok" ELSE "fail"]
    IN  IF ~resp.ok THEN raise(r1, urlopen(f.url).status)
        ELSE SetTop(r1, [f EXCEPT !.info = resp.info, !.body = resp.body,
                                  !.pc = "display"])

\* walk, lines 436-442: response = openurl(url, opts); None returns
walk_openurl(r, o) ==
    LET f == Top(r)
        resp == openurl(f.url, o)
        r1 == [r EXCEPT !.fetched = Append(@, f.url),
                        !.stderr = @ \o resp.warning,
                        !.calls[f.id].fetch = IF resp.ok THEN "ok" ELSE "fail"]
    IN  IF ~resp.ok THEN return(r1)
        ELSE SetTop(r1, [f EXCEPT !.info = resp.info, !.body = resp.body,
                                  !.pc = "display"])

\* walk, lines 444-461: report and copy the URL when display accepts it
walk_display(r, o) ==
    LET f == Top(r)
        reppath == create_reppath(f.url, o)
        cppath == create_cppath(f.url, o)
        rep == report(f, o, reppath, cppath)
        rc == IF o.replicate # None
                  THEN copy_to_file(rep.frame, r.fs, reppath)
                  ELSE [ok |-> TRUE, fs |-> r.fs, frame |-> rep.frame]
        cc == IF rc.ok /\ o.copy # None
                  THEN copy_to_file(rc.frame, rc.fs, cppath)
                  ELSE rc
        r1 == [r EXCEPT !.stdout = Append(@, rep.line),
                        !.fs = cc.fs,
                        !.calls[f.id].shown = TRUE,
                        !.calls[f.id].copied =
                            o.replicate # None \/ o.copy # None]
    IN  IF ~display(f.url, o) THEN SetTop(r, [f EXCEPT !.pc = "recurse"])
        ELSE IF ~cc.ok THEN raise(r1, "OSError")
        ELSE SetTop(r1, [cc.frame EXCEPT !.pc = "recurse"])

\* walk, lines 463-467: read the page and collect its links, or return
walk_recurse(r, o) ==
    LET f == Top(r)
        rd == IF f.has_data THEN [data |-> f.data, frame |-> f]
              ELSE read_url_data(f)
        p == analyze(f.url, rd.data)
        r1 == [r EXCEPT !.calls[f.id].parsed = TRUE,
                        !.calls[f.id].html = rd.data,
                        !.calls[f.id].children = p.m_list]
    IN  IF is_html(f.info) /\ f.recurse
            THEN SetTop(r1, [rd.frame EXCEPT !.list = p.m_list, !.idx = 0,
                                             !.pc = "loop"])
            ELSE return(r)

\* the same with recursion allowed for every link
walk_loop_recurse_all(r, o) ==
    LET f == Top(r)
    IN  IF f.idx >= Len(f.list) THEN return(r)
        ELSE LET newurl == f.list[f.idx + 1]
                 r1 == SetTop(r, [f EXCEPT !.idx = @ + 1])
             IN  call_walk(r1, newurl, f.depth + 1, TRUE, f.url, f.id,
                           f.idx + 1)

\* the same with the links of the page taken from the last to the first
walk_loop_backwards(r, o) ==
    LET f == Top(r)
    IN  IF f.idx >= Len(f.list) THEN return(r)
        ELSE LET newurl == f.list[Len(f.list) - f.idx]
                 r1 == SetTop(r, [f EXCEPT !.idx = @ + 1])
             IN  call_walk(r1, newurl, f.depth + 1, startswith(newurl, f.url),
                           f.url, f.id, f.idx + 1)

\* walk, lines 468-470: the next link of the page, or return after the last
walk_loop(r, o) ==
    LET f == Top(r)
    IN  IF f.idx >= Len(f.list) THEN return(r)
        ELSE LET newurl == f.list[f.idx + 1]
                 r1 == SetTop(r, [f EXCEPT !.idx = @ + 1])
             IN  call_walk(r1, newurl, f.depth + 1, startswith(newurl, f.url),
                           f.url, f.id, f.idx + 1)

At(r, pc) == r.pc = "walk" /\ Top(r).pc = pc

(***************************************************************************)
(* The sites and the options of the model                                  *)
(***************************************************************************)
HostA == <<"h", ":", "/", "/", "a">>
HostO == <<"h", ":", "/", "/", "o">>
Slash == <<"/">>
SegB == <<"b">>
SegC == <<"c">>
SegG == <<"g">>
SegP == <<"p">>
SegQ == <<"q">>
SegTmp == <<"t", "m", "p">>
SegData == <<"d", "a", "t", "a">>
XTxt == <<"x", ".", "t", "x", "t">>
XHtml == <<"x", ".", "h", "t", "m", "l">>
Missing == <<"g", "o", "n", "e">>
Mirror == <<"m">>

Href(tag, ref) == [tag |-> tag, attrs |-> << <<"href", ref>> >>]
Src(ref) == [tag |-> "script", attrs |-> << <<"src", ref>> >>]

Html(body) ==
    [status |-> "ok", info |-> [ctype |-> "text/html", clen |-> Len(body)],
     body |-> body]
Plain ==
    [status |-> "ok", info |-> [ctype |-> "text/plain", clen |-> 0],
     body |-> <<>>]
Down(kind) == [status |-> kind, info |-> NoInfo, body |-> <<>>]

\* A links to B, B links back to A
SiteCycle ==
    (HostA :> Html(<<Href("a", SegB)>>))
    @@ (HostA \o Slash \o SegB :> Html(<<Href("a", HostA \o Slash)>>))

\* a page that links to '.', and to a file
SiteDot ==
    (HostA :> Html(<<Href("a", <<".">>), Href("a", SegC)>>))
    @@ (HostA \o Slash \o SegC :> Plain)

\* root -> child -> grandchild, a broken link, a host that is down and a
\* page of another host with a link of its own
SiteChain ==
    (HostA :> Html(<<Href("a", SegC), Href("A", Missing),
                     Href("link", HostO \o Slash \o SegP),
                     Href("a", HostO \o Slash \o SegQ),
                     Src(SegC \o Slash \o SegG)>>))
    @@ (HostA \o Slash \o SegC :>
            Html(<<Href("a", SegG), Href("a", SegG), Href("a", <<"#", "t">>)>>))
    @@ (HostA \o Slash \o SegC \o Slash \o SegG :> Plain)
    @@ (HostO \o Slash \o SegP :> Html(<<Href("a", SegQ)>>))
    @@ (HostO \o Slash \o SegP \o Slash \o SegQ :> Plain)
    @@ (HostO \o Slash \o SegQ :> Down("timeout"))

\* /tmp/x.txt, /data/x.txt and /data/x.html below the root
SiteFiles ==
    (HostA :> Html(<<Href("a", SegTmp \o Slash \o XTxt),
                     Href("a", SegData \o Slash \o XTxt),
                     Href("a", SegData \o Slash \o XHtml)>>))
    @@ (HostA \o Slash \o SegTmp \o Slash \o XTxt :> Plain)
    @@ (HostA \o Slash \o SegData \o Slash \o XTxt :> Plain)
    @@ (HostA \o Slash \o SegData \o Slash \o XHtml :> Html(<<>>))

Text(body) ==
    [status |-> "ok", info |-> [ctype |-> "text/plain", clen |-> Len(body)],
     body |-> body]

\* three files named x.txt with different contents: one at the root, one of
\* another host and one in /data
SiteShared ==
    (HostA :> Html(<<Href("a", XTxt), Href("a", HostO \o Slash \o XTxt),
                     Href("a", SegData \o Slash \o XTxt)>>))
    @@ (HostA \o Slash \o XTxt :> Text(<<"1">>))
    @@ (HostO \o Slash \o XTxt :> Text(<<"2">>))
    @@ (HostA \o Slash \o SegData \o Slash \o XTxt :> Text(<<"3">>))

\* a broken link that two pages have: the root and its child
SiteBroken ==
    (HostA :> Html(<<Href("a", Missing), Href("a", SegC)>>))
    @@ (HostA \o Slash \o SegC :> Html(<<Href("a", HostA \o Slash \o Missing)>>))

\* the same site with no Content-Length header in any response
NoLength(s) == [u \in DOMAIN s |-> [s[u] EXCEPT !.info.clen = -1]]

BaseSites == {SiteCycle, SiteDot, SiteChain, SiteFiles, SiteBroken}

Sites == BaseSites \cup { NoLength(s) : s \in BaseSites }

\* the largest --depth of the model
MaxDepth == 2

PatTmp == [lit |-> Slash \o SegTmp \o Slash, anchored |-> FALSE]
PatTxt == [lit |-> <<".", "t", "x", "t">>, anchored |-> TRUE]
PatData == [lit |-> SegData, anchored |-> FALSE]
PatHostA == [lit |-> HostA, anchored |-> FALSE]
\* '(' is not a regular expression
PatBad == [lit |-> <<"(">>, anchored |-> FALSE]

\* the options that steer the traversal, with the default output
TraversalOptions ==
    [URL : {HostA \o Slash},
     depth : 0..MaxDepth,
     exclude : {<<>>, <<PatTmp>>},
     include : {<<>>, <<PatHostA>>},
     filter : {<<>>, <<PatTxt>>, <<PatTxt, PatData>>},
     verbose : {0},
     replicate : {None},
     copy : {None},
     no_warnings : BOOLEAN]

\* the options that steer the output; getopts rejects --replicate together
\* with --copy
OutputOptions ==
    { o \in [URL : {HostA \o Slash},
             depth : {0, MaxDepth},
             exclude : {<<>>},
             include : {<<>>},
             filter : {<<>>, <<PatTxt>>, <<PatTxt, PatData>>},
             verbose : 0..3,
             replicate : {None, Mirror},
             copy : {None, Mirror},
             no_warnings : {FALSE}] :
        o.replicate = None \/ o.copy = None }

\* Content-Length matters to the output alone (report reads it)
Scenarios ==
    (TraversalOptions \X BaseSites) \cup (OutputOptions \X Sites)

\* the mirror directory exists (getopts checks it) and is empty
InitFs == (Mirror :> [kind |-> "dir"])

InitRun ==
    [pc |-> "main", error |-> "", stack |-> <<>>, dups |-> {}, fs |-> InitFs,
     stdout |-> <<>>, stderr |-> <<>>, fetched |-> <<>>, calls |-> <<>>]

Init ==
    /\ \E sc \in Scenarios : opts = sc[1] /\ site = sc[2]
    /\ run = InitRun
    /\ twin = Idle /\ twinOpts = Idle /\ parser = Idle /\ cu = Idle

Rest == UNCHANGED <<opts, site, twin, twinOpts, parser, cu>>

Main == run.pc = "main" /\ run' = main(run, opts) /\ Rest

WalkProceed == At(run, "proceed") /\ run' = walk_proceed(run, opts) /\ Rest

WalkOpenurl == At(run, "openurl") /\ run' = walk_openurl(run, opts) /\ Rest

WalkDisplay == At(run, "display") /\ run' = walk_display(run, opts) /\ Rest

WalkRecurse == At(run, "recurse") /\ run' = walk_recurse(run, opts) /\ Rest

WalkLoop == At(run, "loop") /\ run' = walk_loop(run, opts) /\ Rest

Next ==
    \/ Main
    \/ WalkProceed
    \/ WalkOpenurl
    \/ WalkDisplay
    \/ WalkRecurse
    \/ WalkLoop

Spec == Init /\ [][Next]_vars

(***************************************************************************)
(* Two runs side by side: the same site and the same options except for    *)
(* the display filter.  walk is sequential and deterministic, so the two   *)
(* runs advance one statement each per step until both have ended.         *)
(***************************************************************************)
Filters == {<<>>, <<PatTxt>>, <<PatTxt, PatData>>}

Ended(r) == r.pc \in {"done", "crash", "exit"}

step(r, o) ==
    IF r.pc = "main" THEN main(r, o)
    ELSE IF Ended(r) THEN r
    ELSE IF Top(r).pc = "proceed" THEN walk_proceed(r, o)
    ELSE IF Top(r).pc = "openurl" THEN walk_openurl(r, o)
    ELSE IF Top(r).pc = "display" THEN walk_display(r, o)
    ELSE IF Top(r).pc = "recurse" THEN walk_recurse(r, o)
    ELSE walk_loop(r, o)

\* each pair of different filters once, the shorter list in the first run
TwinInit ==
    /\ \E o \in OutputOptions, s \in Sites, flt \in Filters :
          /\ Len(o.filter) < Len(flt)
          /\ opts = o
          /\ twinOpts = [o EXCEPT !.filter = flt]
          /\ site = s
    /\ run = InitRun /\ twin = InitRun
    /\ parser = Idle /\ cu = Idle

\* both runs take one step of the same program, each under its own options
TwinStep ==
    /\ ~(Ended(run) /\ Ended(twin))
    /\ \E next \in {[i \in 1..2 |-> step(IF i = 1 THEN run ELSE twin,
                                         IF i = 1 THEN opts ELSE twinOpts)]} :
          run' = next[1] /\ twin' = next[2]
    /\ UNCHANGED <<opts, twinOpts, site, parser, cu>>

TwinNext == TwinStep

TwinSpec == TwinInit /\ [][TwinNext]_vars

(***************************************************************************)
(* The link extractor on its own: analyze(url, html) for a page URL and a  *)
(* document of at most MaxTags start tags, fed one tag per step.           *)
(***************************************************************************)
MaxTags == 4

PageUrls == {HostA, HostA \o Slash \o SegC}

Tags ==
    {Href("a", SegG),
     Src(SegG \o <<"?", "x">>),
     Href("a", HostA \o Slash \o SegC \o Slash),
     Href("LINK", <<"/", "z">>),
     Href("base", HostA \o Slash \o SegB \o Slash),
     Href("a", <<".">>),
     Href("a", <<"/", "/", "w">>),
     Src(<<"/", "s">>),
     [tag |-> "a", attrs |-> << <<"id", <<"t">> >>, <<"HREF", <<"#", "t">> >> >>]}

Documents == UNION { [1..n -> Tags] : n \in 0..MaxTags }

ExtractInit ==
    /\ \E url \in PageUrls, html \in Documents :
          parser = [pc |-> "input", url |-> url, html |-> html, pos |-> 0,
                    m_url |-> <<>>, m_list |-> <<>>, m_base |-> None,
                    seen |-> <<>>]
    /\ opts = Idle /\ site = Idle /\ run = Idle
    /\ twin = Idle /\ twinOpts = Idle /\ cu = Idle

\* analyze: self.__setup(url), then feed
Analyze ==
    /\ parser.pc = "input"
    /\ parser' = [parser EXCEPT !.pc = "feed",
                                !.m_url = setup(parser.url).m_url,
                                !.m_list = setup(parser.url).m_list,
                                !.m_base = setup(parser.url).m_base]
    /\ UNCHANGED <<opts, site, run, twin, twinOpts, cu>>

\* feed reaches the next start tag
HandleStarttag ==
    /\ parser.pc = "feed" /\ parser.pos < Len(parser.html)
    /\ parser' = [handle_starttag(parser, parser.html[parser.pos + 1])
                    EXCEPT !.pos = parser.pos + 1]
    /\ UNCHANGED <<opts, site, run, twin, twinOpts, cu>>

\* feed returns
EndOfDocument ==
    /\ parser.pc = "feed" /\ parser.pos = Len(parser.html)
    /\ parser' = [parser EXCEPT !.pc = "done"]
    /\ UNCHANGED <<opts, site, run, twin, twinOpts, cu>>

ExtractNext == Analyze \/ HandleStarttag \/ EndOfDocument

ExtractSpec == ExtractInit /\ [][ExtractNext]_vars

(***************************************************************************)
(* The canonicalizer on its own: every string of at most MaxLen characters *)
(* over Alphabet is cleaned once and then cleaned again.                   *)
(***************************************************************************)
MaxLen == 5

Alphabet == {"/", ".", ":", "?", "a"}

Strings == UNION { [1..n -> Alphabet] : n \in 0..MaxLen }

\* longer URLs: '..' segments that reach the root and go past it, runs of
\* '/' inside a path, a query
UrlExamples ==
    {HostA \o <<"/", "b", "/", ".", ".">>,
     HostA \o <<"/", ".", ".">>,
     HostA \o <<"/", ".", ".", "/", ".", ".", "/", "b">>,
     HostA \o <<"/", "/", "b", "/", "/", "/", "c">>,
     HostA \o <<"/", "b", "?", "x", "=", "/", "/">>}

CleanInit ==
    /\ cu \in { [pc |-> "input", url |-> u, once |-> <<>>, twice |-> <<>>] :
                u \in Strings \cup UrlExamples }
    /\ opts = Idle /\ site = Idle /\ run = Idle
    /\ twin = Idle /\ twinOpts = Idle /\ parser = Idle

CleanOnce ==
    /\ cu.pc = "input"
    /\ cu' = [cu EXCEPT !.pc = "once", !.once = clean_url(cu.url)]
    /\ UNCHANGED <<opts, site, run, twin, twinOpts, parser>>

CleanTwice ==
    /\ cu.pc = "once"
    /\ cu' = [cu EXCEPT !.pc = "twice", !.twice = clean_url(cu.once)]
    /\ UNCHANGED <<opts, site, run, twin, twinOpts, parser>>

CleanNext == CleanOnce \/ CleanTwice

CleanSpec == CleanInit /\ [][CleanNext]_vars

(***************************************************************************)
(* The walk run twice with a mirror directory: when the first process has  *)
(* ended, the program is started again with the same options, on the file  *)
(* system the first process left.  twin is the second process.             *)
(***************************************************************************)
MirrorOptions ==
    { o \in OutputOptions : o.replicate # None \/ o.copy # None }

MirrorSites == Sites \cup {SiteShared, NoLength(SiteShared)}

RerunInit ==
    /\ \E o \in MirrorOptions, s \in MirrorSites : opts = o /\ site = s
    /\ run = InitRun
    /\ twin = Idle /\ twinOpts = Idle /\ parser = Idle /\ cu = Idle

\* the process at work: the first until it has ended, then the second,
\* which starts in main on the file system the first has left
Current ==
    IF ~Ended(run) THEN run
    ELSE IF twin = Idle THEN [InitRun EXCEPT !.fs = run.fs]
    ELSE twin

\* the process at work executes its next statement
RerunStep ==
    /\ ~Ended(Current)
    /\ \E next \in {step(Current, opts)} :
          IF Ended(run) THEN twin' = next /\ run' = run
                        ELSE run' = next /\ twin' = twin
    /\ UNCHANGED <<opts, site, twinOpts, parser, cu>>

RerunNext == RerunStep

RerunSpec == RerunInit /\ [][RerunNext]_vars

(***************************************************************************)
(* The process from its command line: getopts, then main.  The command     *)
(* line may ask for both mirror modes, for a mirror directory or a         *)
(* password file that is missing, for both password options, or give a     *)
(* pattern that is not a regular expression.                               *)
(***************************************************************************)
PwdFile == <<"p", "w">>

CommandLines ==
    [URL : {HostA \o Slash},
     depth : {0},
     exclude : {<<>>, <<PatBad>>},
     include : {<<>>, <<PatHostA, PatBad>>},
     filter : {<<>>, <<PatTxt>>, <<PatBad>>},
     verbose : {0},
     replicate : {None, Mirror},
     copy : {None, Mirror},
     no_warnings : {FALSE},
     username : {None, <<"u">>},
     password : {None, <<"s">>},
     password_file : {None, PwdFile}]

\* the mirror directory and the password file are there or are missing
FileSystems ==
    { [p \in present |->
          IF p = Mirror THEN [kind |-> "dir"]
          ELSE [kind |-> "file", data |-> <<"s">>]] :
      present \in SUBSET {Mirror, PwdFile} }

ConfigInit ==
    /\ opts \in CommandLines
    /\ site = SiteShared
    /\ \E fs \in FileSystems : run = [InitRun EXCEPT !.pc = "getopts", !.fs = fs]
    /\ twin = Idle /\ twinOpts = Idle /\ parser = Idle /\ cu = Idle

Getopts == run.pc = "getopts" /\ run' = getopts(run, opts) /\ Rest

\* main and walk, statement by statement
Walk ==
    /\ run.pc \in {"main", "walk"}
    /\ run' = step(run, opts)
    /\ Rest

ConfigNext == Getopts \/ Walk

ConfigSpec == ConfigInit /\ [][ConfigNext]_vars


(***************************************************************************)
(* The traversal policy as the specification words it (section 4.3), used  *)
(* to state the claims.  The visited set of a call is the set of URLs a    *)
(* fetch was attempted on before it.                                       *)
(***************************************************************************)
Calls == 1..Len(run.calls)

Past(c, pcs) == c.at \in pcs

WithinDepth(depth) == opts.depth = 0 \/ depth <= opts.depth

PassesExclude(url) ==
    \A i \in 1..Len(opts.exclude) : ~search(opts.exclude[i], url)

PassesInclude(url) ==
    \A i \in 1..Len(opts.include) : search(opts.include[i], url)

VisitedBefore(i) ==
    { run.calls[j].url : j \in { k \in 1..(i - 1) : run.calls[k].fetch # "none" } }

ShouldFetch(i) ==
    LET c == run.calls[i]
    IN  /\ WithinDepth(c.depth)
        /\ c.url \notin VisitedBefore(i)
        /\ PassesExclude(c.url)
        /\ PassesInclude(c.url)

FilterAccepts(url) ==
    \/ opts.filter = <<>>
    \/ \E i \in 1..Len(opts.filter) :
          search(opts.filter[i],
                 IF endswith(url, <<"/">>) THEN url \o IndexHtml ELSE url)

\* the call was made for a link that does not start with the URL of the
\* page that referenced it
External(i) ==
    LET c == run.calls[i]
    IN  c.from > 0 /\ ~startswith(c.arg, run.calls[c.from].url)

(***************************************************************************)
(* C1: in any run, each canonical URL is fetched (openurl is called on     *)
(* it) at most once.                                                       *)
(***************************************************************************)
C1_FetchedAtMostOnce ==
    \A i, j \in 1..Len(run.fetched) :
        run.fetched[i] = run.fetched[j] => i = j

(***************************************************************************)
(* C2: the walk started at the root URL terminates: the recursion of walk  *)
(* returns to main and is never cut off by the interpreter's recursion     *)
(* limit.                                                                  *)
(***************************************************************************)
C2_WalkReturnsToMain == ~(run.pc = "crash" /\ run.error = "RecursionError")

\* The stack only fills up when the walk is in a cycle: the same canonical
\* URL is being walked, with recursion allowed, by two frames at once.
FullStackIsCycle ==
    (run.pc = "walk" /\ Len(run.stack) = MaxStack /\ Top(run).pc = "loop"
        /\ Top(run).idx < Len(Top(run).list))
    => \E i, j \in 1..Len(run.stack) :
          /\ i < j
          /\ run.stack[i].url = run.stack[j].url
          /\ run.stack[i].recurse /\ run.stack[j].recurse

(***************************************************************************)
(* C3: the root is walked at depth 0 and each hop adds 1; with a max depth *)
(* greater than 0 no fetch is made by a call deeper than it; with max      *)
(* depth 0 a call that returns without a fetch was stopped by the exclude  *)
(* or include patterns, never by its depth.                                *)
(***************************************************************************)
C3_DepthBound ==
    \A i \in Calls :
        LET c == run.calls[i]
        IN  /\ c.depth = IF c.from = 0 THEN 0 ELSE run.calls[c.from].depth + 1
            /\ (opts.depth > 0 /\ c.fetch # "none" => c.depth <= opts.depth)
            /\ (opts.depth = 0 /\ Past(c, {"returned"}) /\ c.fetch = "none"
                    => ~(PassesExclude(c.url) /\ PassesInclude(c.url)))

\* with max depth 1 a child was fetched and a grandchild was not
C3_Witness ==
    /\ opts.depth = 1
    /\ \E i, j \in Calls :
          /\ run.calls[j].from = i /\ run.calls[i].from > 0
          /\ run.calls[i].fetch = "ok" /\ run.calls[i].depth = 1
          /\ run.calls[j].depth = 2 /\ run.calls[j].at = "returned"
          /\ run.calls[j].fetch = "none"
          /\ PassesExclude(run.calls[j].url) /\ PassesInclude(run.calls[j].url)

(***************************************************************************)
(* C4: a call for a link that does not start with the URL of the page that *)
(* referenced it is fetched when shouldFetch holds and reported when the   *)
(* display filter accepts it, but the parser is never run on its body and  *)
(* no call of walk is made from it.                                        *)
(***************************************************************************)
C4_ExternalIsLeaf ==
    \A i \in Calls :
        LET c == run.calls[i]
        IN  External(i) =>
              /\ ~c.parsed /\ c.children = <<>>
              /\ \A j \in Calls : run.calls[j].from # i
              /\ (Past(c, {"returned"}) /\ ShouldFetch(i) => c.fetch # "none")
              /\ (Past(c, {"returned"}) /\ c.fetch = "ok"
                     /\ FilterAccepts(c.url) => c.shown)

\* an HTML page of another host, with a link of its own, was fetched and
\* reported, and the call returned
C4_Witness ==
    \E i \in Calls :
        LET c == run.calls[i]
        IN  /\ External(i) /\ c.at = "returned" /\ c.fetch = "ok" /\ c.shown
            /\ c.url \in DOMAIN site
            /\ is_html(site[c.url].info) /\ site[c.url].body # <<>>

(***************************************************************************)
(* C5: walk fetches a URL only if shouldFetch holds for its canonical      *)
(* form (depth within the limit, URL not visited before, no exclude        *)
(* pattern matches, every include pattern matches), and a call for which   *)
(* shouldFetch is false returns with no fetch, no report, no mirror write  *)
(* and no link extraction.                                                 *)
(***************************************************************************)
C5_FetchOnlyIfShouldFetch ==
    \A i \in Calls :
        LET c == run.calls[i]
        IN  /\ c.url = clean_url(c.arg)
            /\ (c.fetch # "none" => ShouldFetch(i))
            /\ (Past(c, {"returned"}) /\ ~ShouldFetch(i)
                    => c.fetch = "none" /\ ~c.shown /\ ~c.copied /\ ~c.parsed)

\* C5 without the visited set: the depth, exclude and include gates
C5_GatesOtherThanVisited ==
    \A i \in Calls :
        LET c == run.calls[i]
            gates == WithinDepth(c.depth) /\ PassesExclude(c.url)
                        /\ PassesInclude(c.url)
        IN  /\ (c.fetch # "none" => gates)
            /\ (Past(c, {"returned"}) /\ ~gates
                    => c.fetch = "none" /\ ~c.shown /\ ~c.copied /\ ~c.parsed)

(***************************************************************************)
(* C7: a call whose fetch failed returns at once, with no report, no       *)
(* mirror write and no link extraction, and the walk goes on: no fetch     *)
(* error ends the process, and when the walk has returned to main, every   *)
(* link of every parsed page has had its call of walk.                     *)
(***************************************************************************)
FetchErrors == {"HTTPError", "URLError", "ConnectionError", "timeout"}

C7_FetchFailureNotFatal ==
    /\ run.error \notin FetchErrors
    /\ \A i \in Calls :
          LET c == run.calls[i]
          IN  c.fetch = "fail" =>
                c.at = "returned" /\ ~c.shown /\ ~c.copied /\ ~c.parsed
    /\ run.pc = "done" =>
          \A i \in Calls :
              \A k \in 1..Len(run.calls[i].children) :
                  \E j \in Calls :
                      /\ i < j
                      /\ run.calls[j].from = i /\ run.calls[j].child = k
                      /\ run.calls[j].arg = run.calls[i].children[k]

\* a fetch failed, and the next link of the same page was fetched after it
C7_Witness ==
    /\ run.pc = "done"
    /\ \E i, j \in Calls :
          /\ i < j
          /\ run.calls[i].fetch = "fail"
          /\ run.calls[j].from = run.calls[i].from
          /\ run.calls[j].child = run.calls[i].child + 1
          /\ run.calls[j].fetch = "ok"

(***************************************************************************)
(* C8: a fetched URL is reported, and handed to the mirror writer when     *)
(* mirroring is configured, if and only if the display filter accepts it   *)
(* (no filter patterns, or at least one matches the URL, with index.html   *)
(* appended to a URL ending in '/').  With exclude /tmp/ and filter        *)
(* \.txt$, /tmp/x.txt is never fetched, a fetched /data/x.txt is reported  *)
(* and a fetched /data/x.html is not.                                      *)
(***************************************************************************)
Mirroring == opts.replicate # None \/ opts.copy # None

ShownUrls == SelectSeq(run.calls, LAMBDA c : c.shown)

Reported(url) == \E k \in 1..Len(run.stdout) : run.stdout[k].url = url

UrlTmpTxt == HostA \o Slash \o SegTmp \o Slash \o XTxt
UrlDataTxt == HostA \o Slash \o SegData \o Slash \o XTxt
UrlDataHtml == HostA \o Slash \o SegData \o Slash \o XHtml

C8_ReportedIffDisplayed ==
    /\ \A i \in Calls :
          LET c == run.calls[i]
          IN  /\ c.shown => c.fetch = "ok"
              /\ c.copied => c.fetch = "ok"
              /\ (c.fetch = "ok" /\ Past(c, {"recurse", "loop", "returned"})
                     => /\ c.shown = FilterAccepts(c.url)
                        /\ c.copied = (Mirroring /\ FilterAccepts(c.url)))
    /\ Len(run.stdout) = Len(ShownUrls)
    /\ \A k \in 1..Len(run.stdout) : run.stdout[k].url = ShownUrls[k].url
    /\ (opts.exclude = <<PatTmp>> /\ opts.filter = <<PatTxt>>) =>
          /\ ~InList(run.fetched, UrlTmpTxt)
          /\ \A i \in Calls :
                (run.calls[i].fetch = "ok" /\ run.calls[i].at = "returned")
                    => /\ run.calls[i].url = UrlDataTxt => Reported(UrlDataTxt)
                       /\ run.calls[i].url = UrlDataHtml => ~Reported(UrlDataHtml)

\* the example: both /data pages were fetched, only x.txt was reported
C8_Witness ==
    /\ opts.exclude = <<PatTmp>> /\ opts.filter = <<PatTxt>>
    /\ run.pc = "done"
    /\ InList(run.fetched, UrlDataTxt) /\ InList(run.fetched, UrlDataHtml)
    /\ Reported(UrlDataTxt) /\ ~Reported(UrlDataHtml)
    /\ \E i \in Calls : run.calls[i].arg = UrlTmpTxt


(***************************************************************************)
(* C6: the display filter never affects the traversal: two runs over the   *)
(* same site whose options differ only in the display-filter patterns      *)
(* fetch the same sequence of URLs and extract the same links from every   *)
(* page.                                                                   *)
(***************************************************************************)
RECURSIVE Extracted(_)
Extracted(calls) ==
    IF calls = <<>> THEN <<>>
    ELSE LET c == Head(calls)
         IN  (IF c.parsed THEN <<[url |-> c.url, children |-> c.children]>>
              ELSE <<>>) \o Extracted(Tail(calls))

C6_FilterNeverAffectsTraversal ==
    (Ended(run) /\ Ended(twin)) =>
        /\ run.fetched = twin.fetched
        /\ Extracted(run.calls) = Extracted(twin.calls)

(***************************************************************************)
(* C9: clean_url is idempotent: clean_url(clean_url(u)) = clean_url(u).    *)
(***************************************************************************)
C9_CleanUrlIdempotent == cu.pc = "twice" => cu.twice = cu.once

\* a URL with a scheme, a query and a slash to collapse was cleaned twice
C9_Witness ==
    /\ cu.pc = "twice"
    /\ find(cu.url, <<":", "/", "/">>, 0) >= 0
    /\ find(cu.url, <<"?">>, 0) >= 0
    /\ cu.once # cu.url

(***************************************************************************)
(* C10: the list the link extractor produces has no duplicate entries,     *)
(* never contains the page's own canonical URL, and holds exactly the      *)
(* other URLs its a/link href and script src references resolved to, in    *)
(* the order of their first occurrence in the document.                    *)
(***************************************************************************)
FirstSeen(u) == Min({ k \in 1..Len(parser.seen) : parser.seen[k] = u })

C10_ListUniqueOrdered ==
    parser.pc \in {"feed", "done"} =>
        LET list == parser.m_list
        IN  /\ \A i, j \in 1..Len(list) : list[i] = list[j] => i = j
            /\ ~InList(list, clean_url(parser.url))
            /\ \A k \in 1..Len(parser.seen) :
                  (parser.seen[k] # None /\ parser.seen[k] # clean_url(parser.url))
                      => InList(list, parser.seen[k])
            /\ \A i \in 1..Len(list) : InList(parser.seen, list[i])
            /\ \A i, j \in 1..Len(list) :
                  i < j => FirstSeen(list[i]) < FirstSeen(list[j])

\* a document with a repeated reference, a reference to the page itself and
\* references from a, link and script tags was read to its end
C10_Witness ==
    /\ parser.pc = "done"
    /\ Len(parser.m_list) >= 2
    /\ InList(parser.seen, parser.m_url)
    /\ Len(parser.seen) > Len(parser.m_list) + 1
    /\ \E k \in 1..Len(parser.html) : parser.html[k].tag = "script"

(***************************************************************************)
(* The link extractor as the specification words it (section 4.2), used to *)
(* state the claims about it.  Tag k of the document has been handled when *)
(* k <= parser.pos.                                                        *)
(***************************************************************************)
PageUrl == clean_url(parser.url)

Handled == IF parser.pc \in {"feed", "done"} THEN 1..parser.pos ELSE {}

IsAnchor(t) == lower(t.tag) \in {"a", "link"}

IsScript(t) == lower(t.tag) = "script"

\* the reference a tag makes: the href of a or link, the src of script
RefOf(t) ==
    IF IsAnchor(t) THEN get_attr(t.attrs, "href")
    ELSE IF IsScript(t) THEN get_attr(t.attrs, "src")
    ELSE None

IsBase(t) == lower(t.tag) = "base" /\ get_attr(t.attrs, "href") # None

NoBaseBefore(k) == \A j \in 1..(k - 1) : ~IsBase(parser.html[j])

HasScheme(url) == find(url, <<":", "/", "/">>, 0) >= 0

\* the scheme and the host of a URL with a scheme: what precedes the first
\* '/' after '://', the whole URL when there is no such '/'
SchemeHost(url) ==
    LET pos == find(url, <<"/">>, find(url, <<":", "/", "/">>, 0) + 3)
    IN  IF pos < 0 THEN url ELSE slice_to(url, pos)

SiteAbsolute(ref) == startswith(ref, <<"/">>) /\ ref # <<"/">>

(***************************************************************************)
(* C11: on a page whose URL has a scheme, the root page of a host          *)
(* included, an a/link href that starts with '/' and is not '/', with no   *)
(* base tag before it, resolves to the scheme and host of the page URL     *)
(* followed by the href, and that URL is in the extracted list.            *)
(***************************************************************************)
C11_SiteAbsoluteResolved ==
    \A k \in Handled :
        LET t == parser.html[k]
        IN  (IsAnchor(t) /\ SiteAbsolute(RefOf(t)) /\ NoBaseBefore(k)
                /\ HasScheme(PageUrl))
                => InList(parser.m_list, SchemeHost(PageUrl) \o RefOf(t))

\* C11 for the pages below the root: the page URL has a '/' after its host
C11_BelowRootResolved ==
    \A k \in Handled :
        LET t == parser.html[k]
        IN  (IsAnchor(t) /\ SiteAbsolute(RefOf(t)) /\ NoBaseBefore(k)
                /\ HasScheme(PageUrl) /\ SchemeHost(PageUrl) # PageUrl)
                => InList(parser.m_list, SchemeHost(PageUrl) \o RefOf(t))

\* the tag makes a reference the extractor resolves
MakesRef(t) ==
    \/ IsAnchor(t) /\ RefOf(t) # None
          /\ ~startswith(RefOf(t), <<"#">>) /\ ~startswith(RefOf(t), <<"?">>)
    \/ IsScript(t) /\ RefOf(t) # None

\* what the reference of tag k resolved to (None when it was discarded)
ResultAt(k) ==
    parser.seen[Cardinality({ j \in 1..k : MakesRef(parser.html[j]) })]

\* the base in force at tag k: the canonical href of the last base tag
\* before it, None when there is none
BaseAt(k) ==
    LET bases == { j \in 1..(k - 1) : IsBase(parser.html[j]) }
    IN  IF bases = {} THEN None
        ELSE LET last == CHOOSE j \in bases : \A i \in bases : i <= j
             IN  clean_url(get_attr(parser.html[last].attrs, "href"))

\* s.lstrip('/')
RECURSIVE lstrip_slash(_)
lstrip_slash(s) ==
    IF s # <<>> /\ s[1] = "/" THEN lstrip_slash(Tail(s)) ELSE s

\* "Join": the two parts with exactly one '/' between them
Join(a, b) == rstrip_slash(a) \o <<"/">> \o lstrip_slash(b)

\* the resolution of ref on the page when no base is set
WithoutBase(ref) == create_url([m_url |-> PageUrl, m_base |-> None], ref)

(***************************************************************************)
(* C12: a base tag with an href sets the base of the page to the canonical *)
(* href and adds no link itself; every later a/link/script reference that  *)
(* starts with '/' resolves to the base joined with the reference, with    *)
(* exactly one '/' between them; references before the base tag, and       *)
(* relative and scheme-qualified references, resolve as they do on a page  *)
(* without a base tag.                                                     *)
(***************************************************************************)
C12_BaseTagResolution ==
    parser.pc \in {"feed", "done"} =>
        /\ parser.m_base = BaseAt(parser.pos + 1)
        /\ \A i \in 1..Len(parser.m_list) :
              \E k \in Handled :
                  MakesRef(parser.html[k]) /\ ResultAt(k) = parser.m_list[i]
        /\ \A k \in Handled :
              LET ref == RefOf(parser.html[k])
              IN  MakesRef(parser.html[k]) =>
                    IF SiteAbsolute(ref) /\ BaseAt(k) # None
                        THEN ResultAt(k) = Join(BaseAt(k), split_query(ref))
                        ELSE ResultAt(k) = WithoutBase(ref)

\* C12 for the references that start with one '/', not with two
C12_SingleSlashReferences ==
    parser.pc \in {"feed", "done"} =>
        /\ parser.m_base = BaseAt(parser.pos + 1)
        /\ \A i \in 1..Len(parser.m_list) :
              \E k \in Handled :
                  MakesRef(parser.html[k]) /\ ResultAt(k) = parser.m_list[i]
        /\ \A k \in Handled :
              LET ref == RefOf(parser.html[k])
              IN  (MakesRef(parser.html[k]) /\ ~startswith(ref, <<"/", "/">>)) =>
                    IF SiteAbsolute(ref) /\ BaseAt(k) # None
                        THEN ResultAt(k) = Join(BaseAt(k), split_query(ref))
                        ELSE ResultAt(k) = WithoutBase(ref)

(***************************************************************************)
(* C13: the mirror writer never overwrites.  In both modes a file that     *)
(* exists keeps its content over every step of either process (the first   *)
(* writer wins), and a second process, started on the directory the first  *)
(* left when it returned to main, changes nothing in it and ends without   *)
(* an error.                                                               *)
(***************************************************************************)
Files(fs) == { p \in DOMAIN fs : fs[p].kind = "file" }

FilesKept(before, after) ==
    \A p \in Files(before) : p \in DOMAIN after /\ after[p] = before[p]

C13_NeverOverwrites ==
    [][ /\ FilesKept(run.fs, run'.fs)
        /\ (twin # Idle => FilesKept(twin.fs, twin'.fs))
        /\ (run.pc = "done" /\ twin' # Idle)
               => twin'.fs = run.fs /\ twin'.pc # "crash" ]_vars

\* two URLs were written to the same path, and the second process has walked
\* the site to its end over the files of the first
C13_Witness ==
    /\ run.pc = "done" /\ twin # Idle /\ twin.pc = "done"
    /\ \E i, j \in 1..Len(run.stdout) :
          /\ i < j
          /\ run.stdout[i].url # run.stdout[j].url
          /\ run.stdout[i].reppath = run.stdout[j].reppath
          /\ run.stdout[i].cppath = run.stdout[j].cppath
          /\ urlopen(run.stdout[i].url).body # urlopen(run.stdout[j].url).body
    /\ \E c \in 1..Len(twin.calls) : twin.calls[c].copied
    /\ Files(twin.fs) # {}

(***************************************************************************)
(* The mirror writer as the specification words it (section 4.5)           *)
(***************************************************************************)
RootUrl == clean_url(opts.URL)

UnderRoot(url) == startswith(url, RootUrl)

\* the call has been through the report and mirror step of walk
Written(c) == c.shown /\ c.copied /\ Past(c, {"recurse", "loop", "returned"})

\* mirror-root + the canonical URL with the root URL stripped, and
\* index.html below it for the root and for a URL referenced with a
\* trailing '/'
HierarchicalPath(c) ==
    opts.replicate \o slice_from(c.url, Len(RootUrl))
        \o (IF endswith(c.arg, <<"/">>) \/ c.url = RootUrl
                THEN <<"/">> \o IndexHtml ELSE <<>>)

(***************************************************************************)
(* C14: in hierarchical replication mode every fetched and displayed URL   *)
(* under the root is written to the mirror root followed by its canonical  *)
(* URL without the root URL, a URL referenced with a trailing '/' (the     *)
(* root included) as index.html in the directory of that name, and a       *)
(* directory page and the files below it are all written in one run: the   *)
(* writer raises no error.                                                 *)
(***************************************************************************)
C14_HierarchicalPaths ==
    opts.replicate # None =>
        /\ ~(run.pc = "crash" /\ run.error = "OSError")
        /\ \A i \in Calls :
              LET c == run.calls[i]
              IN  (Written(c) /\ UnderRoot(c.url))
                      => HierarchicalPath(c) \in Files(run.fs)

\* C14 for the URLs below the root referenced without a trailing '/', up
\* to the first error of the writer
C14_FilePaths ==
    opts.replicate # None =>
        \A i \in Calls :
            LET c == run.calls[i]
            IN  (Written(c) /\ UnderRoot(c.url) /\ c.url # RootUrl
                    /\ ~endswith(c.arg, <<"/">>))
                    => HierarchicalPath(c) \in Files(run.fs)

\* the root, referenced with a trailing '/', is never written as index.html
C14_RootNotWritten ==
    opts.replicate # None => (opts.replicate \o Slash \o IndexHtml) \notin DOMAIN run.fs

(***************************************************************************)
(* C15: a configuration error (replicate and copy directory both given, a  *)
(* replicate or copy directory that is missing, a password file that is    *)
(* missing, password and password file both given, a pattern that is not a *)
(* regular expression) ends the process with a non-zero exit status before *)
(* any fetch: walk is never entered and openurl is never called, getopts   *)
(* exits with status 1 for the errors it checks, and main dies of re.error *)
(* for a bad pattern.                                                      *)
(***************************************************************************)
\* the directories and the password file are never removed, so what is
\* missing now was missing when the process started
GetoptsError ==
    \/ opts.replicate # None /\ opts.copy # None
    \/ opts.replicate # None /\ opts.replicate \notin DOMAIN run.fs
    \/ opts.copy # None /\ opts.copy \notin DOMAIN run.fs
    \/ opts.password_file # None /\ opts.password_file \notin DOMAIN run.fs
    \/ opts.password # None /\ opts.password_file # None

BadPattern ==
    \E list \in {opts.exclude, opts.include, opts.filter} :
        \E i \in 1..Len(list) : list[i] = PatBad

\* the exit status of a process that has ended: 1 after sys.exit(1) and
\* after an uncaught exception, 0 when main returned
ExitStatus(r) == IF r.pc \in {"exit", "crash"} THEN 1 ELSE 0

C15_ConfigErrorBeforeFetch ==
    (GetoptsError \/ BadPattern) =>
        /\ run.fetched = <<>> /\ run.calls = <<>>
        /\ run.pc \in {"getopts", "main", "exit", "crash"}
        /\ GetoptsError => run.pc \in {"getopts", "exit"}
        /\ Ended(run) => ExitStatus(run) = 1

\* the process has exited on a command line with a missing mirror
\* directory and nothing else wrong
C15_Witness ==
    /\ run.pc = "exit" /\ ExitStatus(run) = 1
    /\ opts.replicate # None /\ opts.copy = None
    /\ opts.replicate \notin DOMAIN run.fs
    /\ opts.password = None /\ opts.password_file = None
    /\ ~BadPattern

(***************************************************************************)
(* The canonicalizer as the specification words it (section 4.1)           *)
(***************************************************************************)
Cleaned == cu.pc \in {"once", "twice"}

\* the positions of s where a '/' is followed by another
DoubleSlashes(s) == { i \in 1..(Len(s) - 1) : s[i] = "/" /\ s[i + 1] = "/" }

\* the position of the first '/' of the scheme marker '://', 0 without one
MarkerSlash(s) ==
    LET pos == find(s, <<":", "/", "/">>, 0)
    IN  IF pos < 0 THEN 0 ELSE pos + 2

(***************************************************************************)
(* C16: clean_url collapses every run of consecutive '/' into one '/',     *)
(* wherever the run is, directly after the scheme marker and at the start  *)
(* of a path without scheme included: the only '//' left in its result is  *)
(* the one of the scheme marker '://'.                                     *)
(***************************************************************************)
C16_RunsCollapsed ==
    Cleaned => DoubleSlashes(cu.once) \subseteq {MarkerSlash(cu.once)}

\* C16 for the runs inside a path: a '//' is left only at the very start of
\* a path, where the path starts with exactly two '/'
C16_InnerRunsCollapsed ==
    Cleaned =>
        /\ DoubleSlashes(cu.once)
              \subseteq {1, MarkerSlash(cu.once), MarkerSlash(cu.once) + 1}
        /\ \A i \in DoubleSlashes(cu.once) \ {MarkerSlash(cu.once)} :
              LET path == slice_from(split_query(cu.url), i - 1)
              IN  startswith(path, <<"/", "/">>)
                     /\ ~startswith(path, <<"/", "/", "/">>)

\* the scheme of a URL with a scheme marker, the marker included
SchemeOf(s) == slice_to(s, find(s, <<":", "/", "/">>, 0) + 3)

\* what follows the scheme marker
AfterScheme(s) == slice_from(s, find(s, <<":", "/", "/">>, 0) + 3)

\* the host: what follows the marker, up to the first '/' or '?'
HostOf(s) ==
    LET rest == AfterScheme(s)
        ends == { i \in 1..Len(rest) : rest[i] \in {"/", "?"} }
    IN  IF ends = {} THEN rest ELSE SubSeq(rest, 1, Min(ends) - 1)

\* the query string: the first '?' and what follows it, empty without '?'
QueryOf(s) ==
    LET pos == find(s, <<"?">>, 0)
    IN  IF pos < 0 THEN <<>> ELSE slice_from(s, pos)

(***************************************************************************)
(* C17: clean_url never alters the scheme, the host or the query string:   *)
(* for an input with a scheme, the result has the same scheme, the same    *)
(* host and the same '?...' suffix; '..' segments that would go past the   *)
(* root of the path stop at the root and leave the host in place.          *)
(***************************************************************************)
C17_SchemeHostQueryKept ==
    (Cleaned /\ HasScheme(split_query(cu.url))) =>
        /\ HasScheme(cu.once)
        /\ SchemeOf(cu.once) = SchemeOf(cu.url)
        /\ HostOf(cu.once) = HostOf(cu.url)
        /\ QueryOf(cu.once) = QueryOf(cu.url)

\* C17 for the scheme alone
C17_SchemeKept ==
    (Cleaned /\ HasScheme(split_query(cu.url))) =>
        HasScheme(cu.once) /\ SchemeOf(cu.once) = SchemeOf(cu.url)

\* C17 for the host, when the input has no query, its host is a name other
\* than '.' and '..', and its path has no more '..' segments than it has
\* segments to pop
C17_HostKeptInsideRoot ==
    (Cleaned /\ HasScheme(cu.url) /\ QueryOf(cu.url) = <<>>
        /\ HostOf(cu.url) \notin {<<>>, <<".">>, <<".", ".">>}
        /\ LET segs == split_slash(AfterScheme(cu.url))
           IN  norm_comps(segs, <<>>) # <<>>
                  /\ \A n \in 1..Len(segs) :
                        norm_comps(SubSeq(segs, 1, n), <<>>) # <<>>)
        => HostOf(cu.once) = HostOf(cu.url)

(***************************************************************************)
(* C18: walk adds the canonical URL to the visited set (dups) before it    *)
(* attempts the fetch, and the set never shrinks: every URL a fetch was    *)
(* attempted on is in dups, and a URL whose fetch failed is not fetched    *)
(* again in the same run, whichever page references it.                    *)
(***************************************************************************)
C18_VisitedBeforeFetch ==
    /\ \A i \in Calls :
          run.calls[i].fetch # "none" => run.calls[i].url \in run.dups
    /\ \A i, j \in Calls :
          (i < j /\ run.calls[i].fetch = "fail"
                 /\ run.calls[j].url = run.calls[i].url)
              => run.calls[j].fetch = "none"

\* the second half alone: a broken link of two pages is fetched once
C18_FailedNotRetried ==
    \A i, j \in Calls :
        (i < j /\ run.calls[i].fetch = "fail"
               /\ run.calls[j].url = run.calls[i].url)
            => run.calls[j].fetch = "none"

\* dups never shrinks
C18_VisitedNeverShrinks == [][run.dups \subseteq run'.dups]_vars

(***************************************************************************)
(* C19: for every fetched HTML page with recursion allowed, the text the   *)
(* link extractor is given is the complete body of the page, and the body  *)
(* of a response is read at most once: what the reporter (at verbosity 0   *)
(* to 3, with or without a Content-Length header) or the mirror writer     *)
(* has read is used again for the extraction.                              *)
(***************************************************************************)
C19_BodyReadOnce ==
    \A i \in Calls :
        LET c == run.calls[i]
        IN  /\ c.reads <= 1
            /\ c.parsed => c.html = urlopen(c.url).body

\* C19 for every run but the ones that dump the header (verbosity 3) of a
\* response without Content-Length
C19_ExceptHeaderDump ==
    \A i \in Calls :
        LET c == run.calls[i]
        IN  (opts.verbose < 3 \/ urlopen(c.url).info.clen >= 0) =>
                /\ c.reads <= 1
                /\ c.parsed => c.html = urlopen(c.url).body

(***************************************************************************)
(* C20: every URL in the list the link extractor produces is canonical,    *)
(* clean_url(u) = u, whatever the reference was (empty, '.', './', '../',  *)
(* a script src that starts with '?'), and so no entry canonicalizes to    *)
(* the canonical URL of the page itself.                                   *)
(***************************************************************************)
C20_ListIsCanonical ==
    parser.pc \in {"feed", "done"} =>
        \A i \in 1..Len(parser.m_list) :
            /\ clean_url(parser.m_list[i]) = parser.m_list[i]
            /\ clean_url(parser.m_list[i]) # PageUrl

\* C20 for the references that are not the page itself and do not start
\* with '//': what they resolve to is canonical
C20_OtherReferencesCanonical ==
    \A k \in Handled :
        LET ref == RefOf(parser.html[k])
        IN  (MakesRef(parser.html[k]) /\ ResultAt(k) # None
                /\ clean_url(split_query(ref)) # <<>>
                /\ ~startswith(ref, <<"/", "/">>))
                => /\ clean_url(ResultAt(k)) = ResultAt(k)
                   /\ (InList(parser.m_list, ResultAt(k))
                          => ResultAt(k) # PageUrl)


(***************************************************************************)
(* C21: the order of the walk                                              *)
(***************************************************************************)
\* call m is call k or was made, directly or through other calls, from it
RECURSIVE Descends(_, _)
Descends(m, k) ==
    \/ m = k
    \/ /\ m > k
       /\ run.calls[m].from > 0
       /\ Descends(run.calls[m].from, k)

\* the calls that fetched, and the calls that reported, in call order
FetchingCalls == SelectSeq(run.calls, LAMBDA c : c.fetch # "none")

UrlsOf(calls) == [k \in 1..Len(calls) |-> calls[k].url]

\* the call made from the same page for the link before the link of call j
PreviousSibling(j) ==
    { k \in Calls : /\ run.calls[k].from = run.calls[j].from
                    /\ run.calls[k].child = run.calls[j].child - 1 }

\* C21: the walk is sequential and depth-first in document order.  Every
\* call made from a page is walk(ci, depth + 1, parent = page) for a link ci
\* of the page's list, the links are taken in list order with none left out,
\* the call for a link is made only after the call for the link before it
\* has returned, every call (and so every fetch) between the two belongs to
\* the subtree of the earlier one, the fetches happen in the order of the
\* calls, and the page has been reported (when the filter accepts it) by the
\* time a call is made from it.
C21_DepthFirstInOrder ==
    /\ run.fetched = UrlsOf(FetchingCalls)
    /\ [k \in 1..Len(run.stdout) |-> run.stdout[k].url] = UrlsOf(ShownUrls)
    /\ \A j \in Calls :
          LET c == run.calls[j]
          IN  c.from > 0 =>
                LET p == run.calls[c.from]
                IN  /\ c.from < j
                    /\ p.at = "loop" \/ (p.at = "returned" /\ c.at = "returned")
                    /\ c.child \in 1..Len(p.children)
                    /\ c.arg = p.children[c.child]
                    /\ c.depth = p.depth + 1
                    /\ c.parent = p.url
                    /\ p.fetch = "ok"
                    /\ p.shown <=> FilterAccepts(p.url)
                    /\ p.shown => Reported(p.url)
                    /\ c.child > 1 =>
                          \E k \in PreviousSibling(j) :
                              /\ k < j
                              /\ run.calls[k].at = "returned"
                              /\ \A m \in (k + 1)..(j - 1) : Descends(m, k)
                    /\ \A m \in (c.from + 1)..j : Descends(m, c.from)

\* A page with two links was walked to the end: something was fetched in
\* the subtree of the first link, below the link itself, and the second link
\* was fetched after it.
C21_Witness ==
    /\ run.pc = "done"
    /\ \E j \in Calls :
          /\ run.calls[j].from > 0
          /\ run.calls[j].fetch # "none"
          /\ \E k \in PreviousSibling(j), m \in Calls :
                /\ m > k
                /\ m < j
                /\ Descends(m, k)
                /\ run.calls[m].fetch = "ok"
                /\ run.calls[run.calls[j].from].shown


(***************************************************************************)
(* C22: the paths of hierarchical replication                              *)
(***************************************************************************)
\* the path is below the directory: the directory, a '/', and something more
Inside(path, dir) ==
    /\ startswith(path, dir \o Slash)
    /\ Len(path) > Len(dir) + 1

\* the paths create_reppath has computed: walk calls it for every URL that
\* was fetched and that display accepts
ComputedPaths ==
    { create_reppath(run.calls[i].url, opts) :
          i \in { j \in Calls : run.calls[j].shown } }

\* C22: in hierarchical replication mode, the path create_reppath computes
\* for a fetched URL has the mirror root as a proper directory prefix: it
\* is never the mirror root itself and never a path outside it, whether or
\* not the URL starts with the root URL or is shorter than it, and every
\* file the walk creates lies inside the mirror root.
C22_PathsInsideMirror ==
    opts.replicate # None =>
        /\ \A p \in ComputedPaths : Inside(p, opts.replicate)
        /\ \A p \in Files(run.fs) : Inside(p, opts.replicate)

\* C22 as the program has it: the computed path is inside the mirror root or
\* is the mirror root itself, the latter exactly for the URLs that are no
\* longer than the root URL as it was given; what the walk creates, files
\* and directories, is inside the mirror root
C22_MirrorRootOrInside ==
    opts.replicate # None =>
        /\ \A i \in Calls :
              LET c == run.calls[i]
                  p == create_reppath(c.url, opts)
              IN  c.shown =>
                    /\ Inside(p, opts.replicate) \/ p = opts.replicate
                    /\ p = opts.replicate <=> Len(c.url) <= Len(opts.URL)
        /\ \A p \in DOMAIN run.fs : Inside(p, opts.replicate) \/ p = opts.replicate

\* a URL of another host was written, to a path inside the mirror root
C22_ExternalWritten ==
    /\ opts.replicate # None
    /\ run.pc = "done"
    /\ \E i \in Calls :
          LET c == run.calls[i]
          IN  /\ Written(c)
              /\ ~UnderRoot(c.url)
              /\ create_reppath(c.url, opts) \in Files(run.fs)

=============================================================================
